---- MODULE Spec2Model ----
(***************************************************************************)
(* analyze_js.py: analyze_javascript_structure(filename).                  *)
(*                                                                         *)
(* The file is a sequence of characters (one-character strings).  The scan *)
(* is a state machine over the two nested for loops of the function; the   *)
(* report is the sequence of lines it prints.  A printed line is a record  *)
(* holding the line's fixed text (kind) and the values its f-string        *)
(* interpolates.                                                           *)
(***************************************************************************)
EXTENDS Integers, Sequences, FiniteSets, TLC

VARIABLES
    content,         \* the characters of the file named by filename
    lines,           \* f.readlines()
    pc,              \* position in the function's code
    line_num,        \* enumerate(lines, 1)
    char_pos,        \* enumerate(line)
    brace_stack,     \* list of (line_num, char_pos, 'open')
    function_stack,  \* list of (name, line_num)
    out,             \* the lines printed by the current invocation
    run,             \* the current invocation: 1 the first, 2 the second
    prev_out         \* the lines printed by the previous invocation

vars == <<content, lines, pc, line_num, char_pos, brace_stack, function_stack,
          out, run, prev_out>>

---------------------------------------------------------------------------
(* Bounds of the checked inputs.                                           *)

MaxFrags == 3
MaxBraces == 6
MaxRepeat == 11

(* brace_stack[-10:] and function_stack[-10:].                             *)
BraceShow == 10
FuncShow == 10

---------------------------------------------------------------------------
(* Characters.  \w and \s of the re module, over the characters the        *)
(* checked files are made of.                                              *)

Keyword == <<"f", "u", "n", "c", "t", "i", "o", "n">>
WordChars == {"a", "b", "c", "f", "i", "n", "o", "t", "u"}
SpaceChars == {" ", "\n"}

Min(S) == CHOOSE x \in S : \A y \in S : x <= y
Max(S) == CHOOSE x \in S : \A y \in S : x >= y

RECURSIVE Flatten(_)
Flatten(ss) == IF ss = <<>> THEN <<>> ELSE Head(ss) \o Flatten(Tail(ss))

RECURSIVE Repeat(_, _)
Repeat(s, n) == IF n = 0 THEN <<>> ELSE s \o Repeat(s, n - 1)

SeqsUpTo(S, n) == UNION {[1..k -> S] : k \in 0..n}

---------------------------------------------------------------------------
(* f.readlines(): the content split after every newline; the last line     *)
(* has no newline when the content does not end with one.                  *)

LineEnds(cs) ==
    {i \in 1..Len(cs) : cs[i] = "\n"} \cup (IF cs = <<>> THEN {} ELSE {Len(cs)})

readlines(cs) ==
    LET ends == LineEnds(cs)
        end(k) == CHOOSE e \in ends : Cardinality({x \in ends : x <= e}) = k
    IN  [k \in 1..Cardinality(ends) |->
            SubSeq(cs, IF k = 1 THEN 1 ELSE end(k - 1) + 1, end(k))]

---------------------------------------------------------------------------
(* The two regular expressions.  \s and \w are disjoint classes and the    *)
(* character after each repetition is of another class, so a match at a    *)
(* position takes each run whole.                                          *)

RECURSIVE RunEnd(_, _, _)
RunEnd(line, i, S) ==
    IF i <= Len(line) /\ line[i] \in S THEN RunEnd(line, i + 1, S) ELSE i

KeywordAt(line, i) ==
    /\ i + Len(Keyword) - 1 <= Len(line)
    /\ SubSeq(line, i, i + Len(Keyword) - 1) = Keyword

(* \b before the keyword: the start of the line or a non-word character.   *)
BoundaryBefore(line, i) == i = 1 \/ line[i - 1] \notin WordChars

(* r'\bfunction\s+\w+\s*\(' matched at position i.                          *)
DeclMatchAt(line, i) ==
    /\ BoundaryBefore(line, i)
    /\ KeywordAt(line, i)
    /\ LET s == RunEnd(line, i + Len(Keyword), SpaceChars)
           w == RunEnd(line, s, WordChars)
           t == RunEnd(line, w, SpaceChars)
       IN  /\ s > i + Len(Keyword)
           /\ w > s
           /\ t <= Len(line)
           /\ line[t] = "("

(* re.search(r'\bfunction\s+\w+\s*\(', line)                                *)
DeclSearch(line) == \E i \in 1..Len(line) : DeclMatchAt(line, i)

(* r'function\s+(\w+)' matched at position i.                               *)
NameMatchAt(line, i) ==
    /\ KeywordAt(line, i)
    /\ LET s == RunEnd(line, i + Len(Keyword), SpaceChars)
           w == RunEnd(line, s, WordChars)
       IN  s > i + Len(Keyword) /\ w > s

(* re.search(r'function\s+(\w+)', line): <<>> for None, else <<group(1)>>  *)
(* of the leftmost match.                                                  *)
NameSearch(line) ==
    LET at == {i \in 1..Len(line) : NameMatchAt(line, i)}
    IN  IF at = {} THEN <<>>
        ELSE LET i == Min(at)
                 s == RunEnd(line, i + Len(Keyword), SpaceChars)
                 w == RunEnd(line, s, WordChars)
             IN  <<SubSeq(line, s, w - 1)>>

TrackFunctionLoose(fs, line, n) ==
    LET func_match == NameSearch(line)
    IN  IF func_match # <<>> THEN Append(fs, <<func_match[1], n>>) ELSE fs

(* Lines 13-16: the function list after the line numbered n.               *)
TrackFunction(fs, line, n) ==
    IF DeclSearch(line)
    THEN LET func_match == NameSearch(line)
         IN  IF func_match # <<>> THEN Append(fs, <<func_match[1], n>>) ELSE fs
    ELSE fs

---------------------------------------------------------------------------
(* The brace stack.                                                        *)

PushFront(stack, ln, pos) == <<<<ln, pos, "open">>>> \o stack

Push(stack, ln, pos) == Append(stack, <<ln, pos, "open">>)

PopKeep(stack) == stack

PopFirst(stack) == Tail(stack)

Pop(stack) == SubSeq(stack, 1, Len(stack) - 1)

FirstN(s, n) == IF Len(s) <= n THEN s ELSE SubSeq(s, 1, n)

(* s[-n:]                                                                  *)
LastN(s, n) == IF Len(s) <= n THEN s ELSE SubSeq(s, Len(s) - n + 1, Len(s))

---------------------------------------------------------------------------
(* Printed lines.                                                          *)

KExtra == "Extra closing brace at line {}, pos {}"
KUnclosedCount == "Unclosed braces: {}"
KUnclosedHeader == "Unclosed braces found at:"
KUnclosedAt == "  Line {}, position {}"
KFunctionsCount == "Functions found: {}"
KFunctionsHeader == "Last 10 functions:"
KFunctionAt == "  {} at line {}"

Line(k, l, p, nm, c) == [kind |-> k, line |-> l, pos |-> p, name |-> nm, n |-> c]

ExtraLine(l, p) == Line(KExtra, l, p, <<>>, 0)
UnclosedCount(c) == Line(KUnclosedCount, 0, 0, <<>>, c)
UnclosedHeader == Line(KUnclosedHeader, 0, 0, <<>>, 0)
UnclosedAt(l, p) == Line(KUnclosedAt, l, p, <<>>, 0)
FunctionsCount(c) == Line(KFunctionsCount, 0, 0, <<>>, c)
FunctionsHeader == Line(KFunctionsHeader, 0, 0, <<>>, 0)
FunctionAt(nm, l) == Line(KFunctionAt, l, 0, nm, 0)

BraceReportAlwaysHeader(stack) ==
    <<UnclosedCount(Len(stack)), UnclosedHeader>> \o
    [i \in 1..Len(LastN(stack, BraceShow)) |->
        UnclosedAt(LastN(stack, BraceShow)[i][1], LastN(stack, BraceShow)[i][2])]

(* Lines 28-32.                                                            *)
BraceReport(stack) ==
    <<UnclosedCount(Len(stack))>> \o
    (IF stack # <<>>
     THEN <<UnclosedHeader>> \o
          [i \in 1..Len(LastN(stack, BraceShow)) |->
              UnclosedAt(LastN(stack, BraceShow)[i][1], LastN(stack, BraceShow)[i][2])]
     ELSE <<>>)

(* Lines 34-38.                                                            *)
FunctionReport(fs) ==
    <<FunctionsCount(Len(fs))>> \o
    (IF fs # <<>>
     THEN <<FunctionsHeader>> \o
          [i \in 1..Len(LastN(fs, FuncShow)) |->
              FunctionAt(LastN(fs, FuncShow)[i][1], LastN(fs, FuncShow)[i][2])]
     ELSE <<>>)

---------------------------------------------------------------------------
(* The files checked: every concatenation of up to MaxFrags fragments,     *)
(* every file of up to MaxBraces braces and newlines, and long files: up   *)
(* to MaxRepeat declaration lines followed by up to MaxRepeat '}', and up  *)
(* to MaxRepeat '{' followed by up to MaxRepeat '}'.                       *)

Frags == {Keyword \o <<" ", "a">>, <<" ">> \o Keyword \o <<" ", "b", "(">>,
          <<"a">>, <<" ">>, <<"(">>, <<"{">>, <<"}">>, <<"\n">>}

ShortFiles == {Flatten(fs) : fs \in SeqsUpTo(Frags, MaxFrags)}

DeclLine == Keyword \o <<" ", "a", "(", ")", "{", "\n">>

LongFiles ==
    {Repeat(DeclLine, i) \o Repeat(<<"}">>, j) : i \in 0..MaxRepeat, j \in 0..MaxRepeat}
    \cup
    {Repeat(<<"{">>, j) \o Repeat(<<"}">>, k) : j \in 0..MaxRepeat, k \in 0..MaxRepeat}

BraceFiles == SeqsUpTo({"{", "}", "\n"}, MaxBraces)

Files == ShortFiles \cup BraceFiles \cup LongFiles

---------------------------------------------------------------------------
(* The state machine.                                                      *)

Init ==
    /\ content \in Files
    /\ lines = <<>>
    /\ pc = "open"
    /\ line_num = 0
    /\ char_pos = 0
    /\ brace_stack = <<>>
    /\ function_stack = <<>>
    /\ out = <<>>
    /\ run = 1
    /\ prev_out = <<>>

OpenKeepsLists ==
    /\ pc = "open"
    /\ lines' = readlines(content)
    /\ line_num' = 1
    /\ char_pos' = 0
    /\ pc' = "line"
    /\ UNCHANGED <<content, brace_stack, function_stack, out, run, prev_out>>

(* Lines 5-11: read the file, create the two lists, enter the line loop.   *)
Open ==
    /\ pc = "open"
    /\ lines' = readlines(content)
    /\ brace_stack' = <<>>
    /\ function_stack' = <<>>
    /\ line_num' = 1
    /\ char_pos' = 0
    /\ pc' = "line"
    /\ UNCHANGED <<content, out, run, prev_out>>

(* Lines 11-16 and 19: the next line; function detection on it.            *)
NextLine ==
    /\ pc = "line"
    /\ line_num <= Len(lines)
    /\ function_stack' = TrackFunction(function_stack, lines[line_num], line_num)
    /\ char_pos' = 0
    /\ pc' = "char"
    /\ UNCHANGED <<content, lines, line_num, brace_stack, out, run, prev_out>>

(* Lines 20-21.                                                            *)
OpenBrace ==
    /\ pc = "char"
    /\ char_pos < Len(lines[line_num])
    /\ lines[line_num][char_pos + 1] = "{"
    /\ brace_stack' = Push(brace_stack, line_num, char_pos)
    /\ char_pos' = char_pos + 1
    /\ UNCHANGED <<content, lines, pc, line_num, function_stack, out, run, prev_out>>

CloseBraceClears ==
    /\ pc = "char"
    /\ char_pos < Len(lines[line_num])
    /\ lines[line_num][char_pos + 1] = "}"
    /\ brace_stack # <<>>
    /\ brace_stack' = <<>>
    /\ char_pos' = char_pos + 1
    /\ UNCHANGED <<content, lines, pc, line_num, function_stack, out, run, prev_out>>

(* Lines 22-24.                                                            *)
CloseBrace ==
    /\ pc = "char"
    /\ char_pos < Len(lines[line_num])
    /\ lines[line_num][char_pos + 1] = "}"
    /\ brace_stack # <<>>
    /\ brace_stack' = Pop(brace_stack)
    /\ char_pos' = char_pos + 1
    /\ UNCHANGED <<content, lines, pc, line_num, function_stack, out, run, prev_out>>

ExtraClosingBraceOneBased ==
    /\ pc = "char"
    /\ char_pos < Len(lines[line_num])
    /\ lines[line_num][char_pos + 1] = "}"
    /\ brace_stack = <<>>
    /\ out' = Append(out, ExtraLine(line_num, char_pos + 1))
    /\ char_pos' = char_pos + 1
    /\ UNCHANGED <<content, lines, pc, line_num, brace_stack, function_stack, run,
                   prev_out>>

(* Lines 22-26.                                                            *)
ExtraClosingBrace ==
    /\ pc = "char"
    /\ char_pos < Len(lines[line_num])
    /\ lines[line_num][char_pos + 1] = "}"
    /\ brace_stack = <<>>
    /\ out' = Append(out, ExtraLine(line_num, char_pos))
    /\ char_pos' = char_pos + 1
    /\ UNCHANGED <<content, lines, pc, line_num, brace_stack, function_stack, run,
                   prev_out>>

(* Lines 19-22: any other character.                                       *)
OtherChar ==
    /\ pc = "char"
    /\ char_pos < Len(lines[line_num])
    /\ lines[line_num][char_pos + 1] \notin {"{", "}"}
    /\ char_pos' = char_pos + 1
    /\ UNCHANGED <<content, lines, pc, line_num, brace_stack, function_stack, out,
                   run, prev_out>>

(* Line 19: the end of the line.                                           *)
EndOfLine ==
    /\ pc = "char"
    /\ char_pos = Len(lines[line_num])
    /\ line_num' = line_num + 1
    /\ pc' = "line"
    /\ UNCHANGED <<content, lines, char_pos, brace_stack, function_stack, out, run,
                   prev_out>>

(* Lines 11 and 28-32: the end of the file; the brace report.              *)
ReportBraces ==
    /\ pc = "line"
    /\ line_num > Len(lines)
    /\ out' = out \o BraceReport(brace_stack)
    /\ pc' = "functions"
    /\ UNCHANGED <<content, lines, line_num, char_pos, brace_stack, function_stack,
                   run, prev_out>>

(* Lines 34-38.                                                            *)
ReportFunctions ==
    /\ pc = "functions"
    /\ out' = out \o FunctionReport(function_stack)
    /\ pc' = "done"
    /\ UNCHANGED <<content, lines, line_num, char_pos, brace_stack, function_stack,
                   run, prev_out>>

(* The scanner is run a second time on the same file: nothing but the     *)
(* file outlives the call, and the output starts anew.                     *)
Reinvoke ==
    /\ pc = "done"
    /\ run = 1
    /\ prev_out' = out
    /\ out' = <<>>
    /\ run' = 2
    /\ pc' = "open"
    /\ UNCHANGED <<content, lines, line_num, char_pos, brace_stack, function_stack>>

Next ==
    \/ Open
    \/ NextLine
    \/ OpenBrace
    \/ CloseBrace
    \/ ExtraClosingBrace
    \/ OtherChar
    \/ EndOfLine
    \/ ReportBraces
    \/ ReportFunctions
    \/ Reinvoke

Spec == Init /\ [][Next]_vars

---------------------------------------------------------------------------
(* What the properties speak of, read from the file's characters alone.    *)

Newlines == {j \in 1..Len(content) : content[j] = "\n"}

(* The 1-indexed line and 0-indexed column of the k-th character.          *)
LineOf(k) == 1 + Cardinality({j \in Newlines : j < k})
ColOf(k) == k - 1 - Max({0} \cup {j \in Newlines : j < k})

(* The number of characters before line l.                                 *)
LineStart(l) ==
    LET nl == Newlines
    IN  IF l <= 1 THEN 0
        ELSE IF l - 1 > Cardinality(nl) THEN Len(content)
        ELSE CHOOSE e \in nl : Cardinality({x \in nl : x < e}) = l - 2

(* The number of characters the current invocation has scanned.            *)
Scanned ==
    IF pc = "open" THEN 0
    ELSE LineStart(line_num) + (IF pc = "char" THEN char_pos ELSE 0)

Opens(k) == Cardinality({j \in 1..k : content[j] = "{"})
Closes(k) == Cardinality({j \in 1..k : content[j] = "}"})

OutOfKind(k) == SelectSeq(out, LAMBDA r : r.kind = k)

Extras == OutOfKind(KExtra)

(* Every prefix has at least as many '{' as '}', and the totals agree.     *)
Balanced ==
    /\ \A k \in 0..Len(content) : Opens(k) >= Closes(k)
    /\ Opens(Len(content)) = Closes(Len(content))

Before(l1, p1, l2, p2) == l1 < l2 \/ (l1 = l2 /\ p1 < p2)

NumLines ==
    Cardinality(Newlines) +
    (IF content # <<>> /\ content[Len(content)] # "\n" THEN 1 ELSE 0)

(* The characters of line l, its newline included.                         *)
TextOfLine(l) == SubSeq(content, LineStart(l) + 1, LineStart(l + 1))

(* The number of lines whose function detection has run.                   *)
LinesSeen ==
    CASE pc = "open" -> 0
      [] pc = "line" -> line_num - 1
      [] pc = "char" -> line_num
      [] OTHER -> NumLines

(* The declaration pattern: the keyword 'function' at a word boundary,     *)
(* whitespace, an identifier, optional whitespace, '('.  The declaration   *)
(* starts at i and its identifier is text[s..w-1].                         *)
KeywordStarts(text, i) ==
    /\ i = 1 \/ text[i - 1] \notin WordChars
    /\ i + 7 <= Len(text)
    /\ \A d \in 1..8 : text[i + d - 1] = Keyword[d]

DeclarationAt(text, i, s, w) ==
    /\ KeywordStarts(text, i)
    /\ s > i + 8
    /\ \A x \in (i + 8)..(s - 1) : text[x] \in SpaceChars
    /\ w > s
    /\ \A x \in s..(w - 1) : text[x] \in WordChars
    /\ \E t \in w..Len(text) :
         /\ \A x \in w..(t - 1) : text[x] \in SpaceChars
         /\ text[t] = "("

DeclarationStarts(text, i) ==
    /\ KeywordStarts(text, i)
    /\ \E s \in (i + 9)..Len(text) : \E w \in (s + 1)..Len(text) :
         DeclarationAt(text, i, s, w)

IsDeclaration(text) == \E i \in 1..Len(text) : DeclarationStarts(text, i)

(* The identifier of the leftmost declaration of a line that has one.      *)
DeclaredName(text) ==
    LET i == Min({j \in 1..Len(text) : DeclarationStarts(text, j)})
        sw == CHOOSE p \in (1..Len(text)) \X (1..Len(text)) :
                 DeclarationAt(text, i, p[1], p[2])
    IN  SubSeq(text, sw[1], sw[2] - 1)

(* The positions of the '{' among the first k characters that no '}' among *)
(* them closes: after such a '{', no stretch holds more '}' than '{'.      *)
UnclosedOpens(k) ==
    LET op == {j \in 1..k : content[j] = "{"}
        cl == {j \in 1..k : content[j] = "}"}
    IN  {i \in op : \A j \in cl :
            j > i => Cardinality({x \in cl : i < x /\ x <= j})
                       <= Cardinality({x \in op : i < x /\ x <= j})}

(* The elements of a set of numbers in increasing order.                   *)
Sorted(S) ==
    [i \in 1..Cardinality(S) |->
        CHOOSE e \in S : Cardinality({x \in S : x < e}) = i - 1]

MinOf(a, b) == IF a <= b THEN a ELSE b

function_stack_lines == [i \in 1..Len(function_stack) |-> function_stack[i][2]]

Rank(k) ==
    CASE k = KExtra -> 1
      [] k = KUnclosedCount -> 2
      [] k = KUnclosedHeader -> 3
      [] k = KUnclosedAt -> 4
      [] k = KFunctionsCount -> 5
      [] k = KFunctionsHeader -> 6
      [] k = KFunctionAt -> 7

---------------------------------------------------------------------------
(* C1: a file whose braces are balanced in valid nesting order prints no   *)
(* 'Extra closing brace' line and reports 'Unclosed braces: 0'; the brace  *)
(* stack is empty at the end of the scan.                                  *)
C1_BalancedReportsNothing ==
    (pc = "done" /\ Balanced) =>
        /\ Extras = <<>>
        /\ OutOfKind(KUnclosedCount) = <<UnclosedCount(0)>>
        /\ brace_stack = <<>>

C1_Witness ==
    /\ pc = "done"
    /\ Balanced
    /\ Opens(Len(content)) >= 2
    /\ \E k \in 2..Len(content) : content[k - 1] = "{" /\ content[k] = "{"

(* C2: a '}' scanned with the brace stack empty emits exactly one          *)
(* diagnostic with the 1-indexed line and 0-indexed column of that '}',    *)
(* leaves the stack empty and goes on with the next character; a '}'       *)
(* scanned with a non-empty stack emits nothing.                           *)
C2_ExtraClosingBrace ==
    [][(/\ pc = "char"
        /\ Scanned < Len(content)
        /\ LineOf(Scanned + 1) = line_num
        /\ content[Scanned + 1] = "}")
       => IF brace_stack = <<>>
          THEN /\ out' = Append(out, ExtraLine(LineOf(Scanned + 1), ColOf(Scanned + 1)))
               /\ brace_stack' = <<>>
               /\ pc' = "char"
               /\ line_num' = line_num
               /\ char_pos' = char_pos + 1
          ELSE out' = out]_vars

(* An extra '}' on the second line, after the first column, was reported   *)
(* and the scan went on to the end.                                        *)
C2_Witness ==
    /\ pc = "done"
    /\ \E i \in 1..Len(Extras) : Extras[i].line = 2 /\ Extras[i].pos >= 1
    /\ Len(Extras) >= 2
    /\ Len(Extras) < Closes(Len(content))

(* C9: after any prefix of the scan, the size of the brace stack is the    *)
(* number of '{' scanned, minus the number of '}' scanned, plus the number *)
(* of 'Extra closing brace' lines printed; the reported N is that number   *)
(* for the whole file.                                                     *)
C9_Counting ==
    /\ pc # "open" =>
         Len(brace_stack) = Opens(Scanned) - Closes(Scanned) + Len(Extras)
    /\ pc = "done" =>
         OutOfKind(KUnclosedCount) =
           <<UnclosedCount(Opens(Len(content)) - Closes(Len(content)) + Len(Extras))>>

C9_Witness ==
    /\ pc = "char"
    /\ Len(Extras) >= 1
    /\ Len(brace_stack) >= 1
    /\ Closes(Scanned) >= 2

(* C10: the brace stack, bottom to top, is strictly increasing in (line,   *)
(* column), every marker lies before the next position to scan, and the    *)
(* positions printed under 'Unclosed braces found at:' are strictly        *)
(* increasing.                                                             *)
C10_StackOrdered ==
    /\ pc # "open" =>
         /\ \A i \in 1..Len(brace_stack) - 1 :
              Before(brace_stack[i][1], brace_stack[i][2],
                     brace_stack[i + 1][1], brace_stack[i + 1][2])
         /\ \A i \in 1..Len(brace_stack) :
              \/ brace_stack[i][1] < line_num
              \/ pc = "char" /\ brace_stack[i][1] = line_num
                             /\ brace_stack[i][2] < char_pos
    /\ LET at == OutOfKind(KUnclosedAt)
       IN  \A i \in 1..Len(at) - 1 :
             Before(at[i].line, at[i].pos, at[i + 1].line, at[i + 1].pos)

C10_Witness ==
    /\ pc = "done"
    /\ Len(OutOfKind(KUnclosedAt)) >= 3
    /\ Closes(Len(content)) >= 1
    /\ \E i \in 1..Len(brace_stack) : brace_stack[i][1] >= 2
    /\ \E i \in 1..Len(brace_stack) : brace_stack[i][2] >= 1

(* C3: with more than 10 unclosed brace markers (function markers) the    *)
(* listed entries are the last 10 markers of the collection in encounter   *)
(* order, the printed total is the full size of the collection, and with   *)
(* 10 or fewer markers all of them are listed.                             *)
C3_LastTenListed ==
    pc = "done" =>
        LET nb == Len(brace_stack)
            nf == Len(function_stack)
            kb == MinOf(nb, 10)
            kf == MinOf(nf, 10)
        IN  /\ OutOfKind(KUnclosedCount) = <<UnclosedCount(nb)>>
            /\ OutOfKind(KUnclosedAt) =
                 [i \in 1..kb |-> UnclosedAt(brace_stack[nb - kb + i][1],
                                             brace_stack[nb - kb + i][2])]
            /\ OutOfKind(KFunctionsCount) = <<FunctionsCount(nf)>>
            /\ OutOfKind(KFunctionAt) =
                 [i \in 1..kf |-> FunctionAt(function_stack[nf - kf + i][1],
                                             function_stack[nf - kf + i][2])]

C3_Witness ==
    /\ pc = "done"
    /\ Len(brace_stack) > 10
    /\ Len(function_stack) > 10
    /\ Len(OutOfKind(KUnclosedAt)) = 10
    /\ Len(OutOfKind(KFunctionAt)) = 10

C5_MarkerPerDeclarationLine ==
    /\ pc # "open" =>
         function_stack_lines =
           Sorted({l \in 1..LinesSeen : IsDeclaration(TextOfLine(l))})
    /\ pc = "done" =>
         OutOfKind(KFunctionsCount) =
           <<FunctionsCount(Cardinality({l \in 1..NumLines :
                                           IsDeclaration(TextOfLine(l))}))>>

(* 'function a(){' then '}': one marker 'a at line 1', no unclosed brace.  *)
C5_Witness ==
    /\ pc = "done"
    /\ content = DeclLine \o <<"}">>
    /\ OutOfKind(KFunctionAt) = <<FunctionAt(<<"a">>, 1)>>
    /\ OutOfKind(KUnclosedCount) = <<UnclosedCount(0)>>

(* C6: the output is the 'Extra closing brace' lines in scan order, then   *)
(* 'Unclosed braces: N', then only if N > 0 the header and its position    *)
(* lines, then 'Functions found: N', then only if that N > 0 the header    *)
(* and its entries; no 'Extra closing brace' line follows any other line.  *)
C6_OutputOrder ==
    /\ \A i \in 1..Len(out) - 1 : Rank(out[i].kind) <= Rank(out[i + 1].kind)
    /\ \A i \in 1..Len(Extras) - 1 :
         Before(Extras[i].line, Extras[i].pos, Extras[i + 1].line, Extras[i + 1].pos)
    /\ pc \in {"open", "line", "char"} => out = Extras
    /\ pc = "done" =>
         /\ Len(OutOfKind(KUnclosedCount)) = 1
         /\ Len(OutOfKind(KFunctionsCount)) = 1
         /\ LET nb == OutOfKind(KUnclosedCount)[1].n
                nf == OutOfKind(KFunctionsCount)[1].n
            IN  /\ Len(OutOfKind(KUnclosedHeader)) = (IF nb > 0 THEN 1 ELSE 0)
                /\ Len(OutOfKind(KUnclosedAt)) = MinOf(nb, 10)
                /\ Len(OutOfKind(KFunctionsHeader)) = (IF nf > 0 THEN 1 ELSE 0)
                /\ Len(OutOfKind(KFunctionAt)) = MinOf(nf, 10)

(* Extra closing braces, unclosed braces and functions in one report.      *)
C6_Witness ==
    /\ pc = "done"
    /\ Len(Extras) >= 1
    /\ Len(OutOfKind(KUnclosedAt)) >= 1
    /\ Len(OutOfKind(KFunctionAt)) >= 1

(* C7: a second invocation on the same file starts from an empty brace     *)
(* stack and an empty function list and prints the same lines as the       *)
(* first.                                                                  *)
C7_SameOutputTwice ==
    /\ (run = 2 /\ pc = "line" /\ line_num = 1) =>
         brace_stack = <<>> /\ function_stack = <<>>
    /\ (run = 2 /\ pc = "done") => out = prev_out

C7_Witness ==
    /\ run = 2
    /\ pc = "done"
    /\ Len(Extras) >= 1
    /\ Len(OutOfKind(KUnclosedAt)) >= 1
    /\ out = prev_out

(* C8: the name of every function marker is the identifier of the          *)
(* declaration matched on its line, the one between the matched 'function' *)
(* keyword and its '(', and every line that matches the declaration        *)
(* pattern gets its marker.                                                *)
C8_NameOfMatchedDeclaration ==
    pc = "done" =>
        /\ Len(function_stack) =
             Cardinality({l \in 1..NumLines : IsDeclaration(TextOfLine(l))})
        /\ \A i \in 1..Len(function_stack) :
             /\ IsDeclaration(TextOfLine(function_stack[i][2]))
             /\ function_stack[i][1] = DeclaredName(TextOfLine(function_stack[i][2]))

====
